---- MODULE Spec2Model ----
(***************************************************************************)
(* Model of the RSI browser client library (src/rsi_lib.py): the           *)
(* disk-backed cache under cache_dir, the HTTP helpers _get/_post, and the *)
(* catalog operations search, get_si, get_thumbnail, get_model and         *)
(* clear_cache.  Every access to the file system or the network is one     *)
(* step of the calling thread; the network and the server's answers are    *)
(* the environment.  The mesh import (import_mesh of src/__init__.py and   *)
(* of src/openctm/openctm.py) and the handlers of the add-on               *)
(* (src/__init__.py) are modelled on top, each under its own               *)
(* specification.                                                          *)
(***************************************************************************)
EXTENDS Integers, Sequences, FiniteSets, TLC

(* ---------------------------------------------------------------------- *)
(* Bounds and small input sets                                            *)
(* ---------------------------------------------------------------------- *)

\* longest "resources" list the server answers with
MaxResults == 2

\* most calls the two threads make between them when they run concurrently
MaxCalls == 2

\* most vertices and most triangles of a mesh container
MaxVertices == 2
MaxTriangles == 2

\* the threads that can call into the library: the add-on runs every handler
\* on the main thread; a second thread is a caller that shares the cache
MainThread == "main"
Threads == {MainThread, "worker"}

\* ship names (the cache key), as typed into a search or passed by a caller
Names == {"a", "b"}

\* thumbnail URLs handed to get_thumbnail
Urls == {"/ta", "/tb"}

\* bodies a GET can answer with
Bodies == {"bytes1", "bytes2"}

\* what urlopen raises: no connection, or a non-2xx status
TransportErrors == {"URLError", "HTTPError"}

(* ---------------------------------------------------------------------- *)
(* Paths and the cache layout                                             *)
(* ---------------------------------------------------------------------- *)

SHIP_INFO == "ship_info.json"
THUMBNAIL == "thumbnail.jpg"
MODEL == "model.ctm"
Kinds == {SHIP_INFO, THUMBNAIL, MODEL}

cache_dir == "cache"

\* self.cache_dir / name / kind
CachePath(name, kind) == <<cache_dir, name, kind>>

Paths == {CachePath(n, k) : n \in Names, k \in Kinds}

\* content of a path that is not a file
Absent == "<absent>"

GRAPHQL_URL == "https://robertsspaceindustries.com/graphql"
MODEL_URL == "https://robertsspaceindustries.com/media/kvt3bfwjb1cxwr/source/AEGIS_JAVELIN.ctm"

(* ---------------------------------------------------------------------- *)
(* Ship records and their JSON text                                       *)
(* ---------------------------------------------------------------------- *)

\* one entry of data.store.search.resources in the server's answer
Ship(n) == [name |-> n, title |-> "T-" \o n, thumbnail |-> "/t" \o n, url |-> "/ships/" \o n]

Ships == {Ship(n) : n \in Names}

\* json.dumps of a ship record: the text stored in ship_info.json
dumps(ship) == "{name:" \o ship.name \o ",title:" \o ship.title \o ",thumbnail:"
                  \o ship.thumbnail \o ",url:" \o ship.url \o "}"

\* a read that ignores the text it is given
loads_any(text) == CHOOSE ship \in Ships : dumps(ship) # text

\* json.loads of the text of ship_info.json
loads(text) == CHOOSE ship \in Ships : dumps(ship) = text

\* lists of at most n ships
RECURSIVE SeqsUpTo(_)
SeqsUpTo(n) == IF n = 0 THEN {<<>>}
               ELSE SeqsUpTo(n - 1) \cup
                    {Append(s, x) : s \in {t \in SeqsUpTo(n - 1) : Len(t) = n - 1}, x \in Ships}

\* bodies a POST to the GraphQL endpoint can answer with: text that is not
\* JSON, JSON without the data.store.search.resources path, or a resources list
PostBodies == {[kind |-> "badjson", resources |-> <<>>],
               [kind |-> "noshape", resources |-> <<>>]}
              \cup {[kind |-> "ok", resources |-> r] : r \in SeqsUpTo(MaxResults)}

NoBody == [kind |-> "none", resources |-> <<>>]

(* ---------------------------------------------------------------------- *)
(* State                                                                  *)
(* ---------------------------------------------------------------------- *)

VARIABLES
    rootExists,   \* cache_dir exists
    dirs,         \* names n for which cache_dir / n exists
    file,         \* content of every cache path, Absent if no such file
    call,         \* per thread: the library call it is in
    hist,         \* per path: the first successful get since the last clear
    started,      \* calls begun so far by concurrent callers
    addon,        \* the add-on's globals and the handler Blender is running
    mesh          \* the import_mesh call in progress

vars == <<rootExists, dirs, file, call, hist, started, addon, mesh>>
fs == <<rootExists, dirs, file>>
lib == <<rootExists, dirs, file, call, hist, started, addon>>

NoFiles == [p \in Paths |-> Absent]

\* A call record: the operation and its arguments (op, name, url), the
\* position in its code (pc), its locals (data, body, json, results, i), the
\* exception in flight or raised, outermost first (exc), and the value
\* returned (ret for a path, recs for records).  The other fields are
\* bookkeeping: requests sent (reqs), what the existence check found (saw),
\* whether the transport failed (neterr), the cache when the call began
\* (file0), whether an earlier get of the same path succeeded (after) or
\* the latest one failed in the network (retry), the files a clear removed.
Idle == [op |-> "none", name |-> "", url |-> "", pc |-> "idle", reqs |-> 0,
         saw |-> "none", data |-> "", body |-> NoBody, json |-> <<>>, results |-> <<>>,
         i |-> 0, exc |-> <<>>, ret |-> <<>>, recs |-> <<>>, removed |-> {},
         neterr |-> FALSE, file0 |-> NoFiles, after |-> FALSE, retry |-> FALSE]

NoHist == [ok |-> FALSE, miss |-> FALSE, ret |-> <<>>, recs |-> <<>>, reqs |-> 0,
           failed |-> FALSE]

\* a cache left by an earlier session: everything of ship "a"
OldCache == [p \in Paths |->
               IF p[2] # "a" THEN Absent
               ELSE IF p[3] = SHIP_INFO THEN dumps(Ship("a")) ELSE "bytes1"]

\* no import_mesh call: variant says whose import_mesh runs, pc where it is,
\* ctx is the state of the context of ctmNewContext, the other fields are the
\* locals of the call; frees, flips and stale count what was done to the
\* context and to the vertices
NoMesh == [variant |-> "none", pc |-> "idle", ctx |-> "none",
           container |-> [err |-> "none", vertex_count |-> 0, vertices |-> <<>>,
                          triangle_count |-> 0, indices |-> <<>>],
           vertex_count |-> 0, vertex_ctm |-> <<>>, face_count |-> 0, face_ctm |-> <<>>,
           vertices_ |-> <<>>, faces_ |-> <<>>, i |-> 0, exc |-> <<>>, ret |-> <<>>,
           returned |-> FALSE, frees |-> 0, flips |-> 0, stale |-> FALSE]

\* The add-on: bpy.app.online_access (online), the previews loaded (thumbs),
\* the module's search_results, the handler that runs with its arguments
\* (handler, sid, url) and position (pc), what it reported to the user
\* (reports), the exception that left it (exc) and what it returned (ret).
NoHandler == [handler |-> "none", pc |-> "idle", sid |-> "", url |-> "",
              reports |-> <<>>, exc |-> <<>>, ret |-> ""]

AddonStart == [online |-> FALSE, thumbs |-> {}, search_results |-> <<>>] @@ NoHandler

\* the cache directory is missing, empty, or left by an earlier session
Init ==
    /\ \/ rootExists = FALSE /\ dirs = {} /\ file = NoFiles
       \/ rootExists = TRUE /\ dirs = {} /\ file = NoFiles
       \/ rootExists = TRUE /\ dirs = {"a"} /\ file = OldCache
    /\ call = [c \in Threads |-> Idle]
    /\ hist = [p \in Paths |-> NoHist]
    /\ started = 0
    /\ addon = AddonStart
    /\ mesh = NoMesh

\* a cache check that never finds the file
exists_never(p) == FALSE

\* cache_path.exists()
exists(p) == file[p] # Absent

Set(c, r) == call' = [call EXCEPT ![c] = r]

\* the record of a call that begins: op(name, url), about path p
New(op, name, url, pc, p) ==
    [Idle EXCEPT !.op = op, !.name = name, !.url = url, !.pc = pc, !.file0 = file,
                 !.after = hist[p].ok, !.retry = hist[p].failed]

\* the first successful get of a path since the last clear is remembered
Remember(p, r) ==
    hist' = IF hist[p].ok THEN [hist EXCEPT ![p].failed = FALSE]
            ELSE [hist EXCEPT ![p] = [ok |-> TRUE, miss |-> r.saw = "miss", ret |-> r.ret,
                                      recs |-> r.recs, reqs |-> r.reqs, failed |-> FALSE]]

\* a get of a path that raises: was it the network?
Failed(p, r) == hist' = [hist EXCEPT ![p].failed = r.neterr]

(* ---------------------------------------------------------------------- *)
(* clear_cache                                                            *)
(* ---------------------------------------------------------------------- *)

\* a removal that leaves the model files behind
rmtree_keep_models(f) == [p \in Paths |-> IF p[3] = MODEL THEN f[p] ELSE Absent]

\* shutil.rmtree on an existing tree: nothing is left below the root
rmtree(f) == [p \in Paths |-> Absent]

clear_cache(c) ==
    /\ call[c].pc = "idle"
    /\ IF rootExists
       THEN /\ rootExists' = FALSE
            /\ dirs' = {}
            /\ file' = rmtree(file)
            /\ hist' = [p \in Paths |-> NoHist]
            /\ call' = [d \in Threads |->
                         IF d = c
                         THEN [Idle EXCEPT !.op = "clear_cache", !.pc = "done",
                                           !.file0 = file,
                                           !.removed = {p \in Paths : file[p] # Absent}]
                         ELSE [call[d] EXCEPT !.after = FALSE, !.retry = FALSE]]
       ELSE /\ UNCHANGED <<fs, hist>>
            /\ Set(c, [Idle EXCEPT !.op = "clear_cache", !.pc = "done", !.file0 = file,
                                   !.exc = <<"FileNotFoundError">>])

(* ---------------------------------------------------------------------- *)
(* _get                                                                   *)
(* ---------------------------------------------------------------------- *)

\* urllib.request.urlopen(Request(url ...)): the request goes out
_get_urlopen(c) ==
    /\ call[c].pc = "_get"
    /\ Set(c, [call[c] EXCEPT !.pc = "_get_wait", !.reqs = @ + 1])
    /\ UNCHANGED <<fs, hist>>

\* the exception _get raises for the transport exception e
_get_raise(e) == <<"RSIException", e>>

\* a _get that sends the request again after a failure
_get_read_retry(c) ==
    /\ call[c].pc = "_get_wait"
    /\ \/ \E b \in Bodies :
            Set(c, [call[c] EXCEPT !.pc = "mkdir", !.data = b])
       \/ Set(c, [call[c] EXCEPT !.pc = "_get"])
    /\ UNCHANGED <<fs, hist>>

\* .read() returns the body, or the transport raises and _get wraps it
_get_read(c) ==
    /\ call[c].pc = "_get_wait"
    /\ \/ \E b \in Bodies :
            Set(c, [call[c] EXCEPT !.pc = "mkdir", !.data = b])
       \/ \E e \in TransportErrors :
            Set(c, [call[c] EXCEPT !.pc = "except", !.exc = _get_raise(e),
                                   !.neterr = TRUE])
    /\ UNCHANGED <<fs, hist>>

(* ---------------------------------------------------------------------- *)
(* get_thumbnail                                                          *)
(* ---------------------------------------------------------------------- *)

get_thumbnail_call(c, name, url) ==
    /\ call[c].pc = "idle"
    /\ Set(c, New("get_thumbnail", name, url, "exists", CachePath(name, THUMBNAIL)))
    /\ UNCHANGED <<fs, hist>>

\* if not cache_path.exists():
get_thumbnail_exists(c) ==
    /\ call[c].op = "get_thumbnail" /\ call[c].pc = "exists"
    /\ LET p == CachePath(call[c].name, THUMBNAIL) IN
         Set(c, [call[c] EXCEPT !.saw = IF file[p] # Absent THEN "hit" ELSE "miss",
                                !.pc = IF exists(p) THEN "return" ELSE "_get"])
    /\ UNCHANGED <<fs, hist>>

\* cache_path.parent.mkdir(parents=True, exist_ok=True)
get_thumbnail_mkdir(c) ==
    /\ call[c].op = "get_thumbnail" /\ call[c].pc = "mkdir"
    /\ rootExists' = TRUE
    /\ dirs' = dirs \cup {call[c].name}
    /\ Set(c, [call[c] EXCEPT !.pc = "write"])
    /\ UNCHANGED <<file, hist>>

\* a write that keeps a file that is already there
get_thumbnail_write_once(c) ==
    /\ call[c].op = "get_thumbnail" /\ call[c].pc = "write"
    /\ IF call[c].name \in dirs
       THEN /\ file' = IF file[CachePath(call[c].name, THUMBNAIL)] # Absent THEN file
                       ELSE [file EXCEPT ![CachePath(call[c].name, THUMBNAIL)] = call[c].data]
            /\ Set(c, [call[c] EXCEPT !.pc = "return"])
       ELSE /\ file' = file
            /\ Set(c, [call[c] EXCEPT !.pc = "except", !.exc = <<"FileNotFoundError">>])
    /\ UNCHANGED <<rootExists, dirs, hist>>

\* cache_path.write_bytes(data); without the parent directory it raises
get_thumbnail_write(c) ==
    /\ call[c].op = "get_thumbnail" /\ call[c].pc = "write"
    /\ IF call[c].name \in dirs
       THEN /\ file' = [file EXCEPT ![CachePath(call[c].name, THUMBNAIL)] = call[c].data]
            /\ Set(c, [call[c] EXCEPT !.pc = "return"])
       ELSE /\ file' = file
            /\ Set(c, [call[c] EXCEPT !.pc = "except", !.exc = <<"FileNotFoundError">>])
    /\ UNCHANGED <<rootExists, dirs, hist>>

\* except Exception as e: raise RSIException(f"...: {e}")
get_thumbnail_except(c) ==
    /\ call[c].op = "get_thumbnail" /\ call[c].pc = "except"
    /\ Set(c, [call[c] EXCEPT !.pc = "done", !.exc = <<"RSIException">> \o @])
    /\ Failed(CachePath(call[c].name, THUMBNAIL), call[c])
    /\ UNCHANGED fs

\* return str(cache_path)
get_thumbnail_return(c) ==
    /\ call[c].op = "get_thumbnail" /\ call[c].pc = "return"
    /\ LET p == CachePath(call[c].name, THUMBNAIL)
           r == [call[c] EXCEPT !.pc = "done", !.ret = p]
       IN  Set(c, r) /\ Remember(p, r)
    /\ UNCHANGED fs

(* ---------------------------------------------------------------------- *)
(* get_model                                                              *)
(* ---------------------------------------------------------------------- *)

get_model_call(c, name) ==
    /\ call[c].pc = "idle"
    /\ Set(c, New("get_model", name, MODEL_URL, "exists", CachePath(name, MODEL)))
    /\ UNCHANGED <<fs, hist>>

\* if not cache_path.exists():
get_model_exists(c) ==
    /\ call[c].op = "get_model" /\ call[c].pc = "exists"
    /\ LET p == CachePath(call[c].name, MODEL) IN
         Set(c, [call[c] EXCEPT !.saw = IF file[p] # Absent THEN "hit" ELSE "miss",
                                !.pc = IF exists(p) THEN "return" ELSE "_get"])
    /\ UNCHANGED <<fs, hist>>

\* cache_path.parent.mkdir(parents=True, exist_ok=True)
get_model_mkdir(c) ==
    /\ call[c].op = "get_model" /\ call[c].pc = "mkdir"
    /\ rootExists' = TRUE
    /\ dirs' = dirs \cup {call[c].name}
    /\ Set(c, [call[c] EXCEPT !.pc = "write"])
    /\ UNCHANGED <<file, hist>>

\* a write that lands on the thumbnail of the same ship
get_model_write_thumb(c) ==
    /\ call[c].op = "get_model" /\ call[c].pc = "write"
    /\ IF call[c].name \in dirs
       THEN /\ file' = [file EXCEPT ![CachePath(call[c].name, THUMBNAIL)] = call[c].data]
            /\ Set(c, [call[c] EXCEPT !.pc = "return"])
       ELSE /\ file' = file
            /\ Set(c, [call[c] EXCEPT !.pc = "except", !.exc = <<"FileNotFoundError">>])
    /\ UNCHANGED <<rootExists, dirs, hist>>

\* cache_path.write_bytes(data); without the parent directory it raises
get_model_write(c) ==
    /\ call[c].op = "get_model" /\ call[c].pc = "write"
    /\ IF call[c].name \in dirs
       THEN /\ file' = [file EXCEPT ![CachePath(call[c].name, MODEL)] = call[c].data]
            /\ Set(c, [call[c] EXCEPT !.pc = "return"])
       ELSE /\ file' = file
            /\ Set(c, [call[c] EXCEPT !.pc = "except", !.exc = <<"FileNotFoundError">>])
    /\ UNCHANGED <<rootExists, dirs, hist>>

\* a handler that leaves a partial file behind
get_model_except_partial(c) ==
    /\ call[c].op = "get_model" /\ call[c].pc = "except"
    /\ Set(c, [call[c] EXCEPT !.pc = "done", !.exc = <<"RSIException">> \o @])
    /\ Failed(CachePath(call[c].name, MODEL), call[c])
    /\ file' = [file EXCEPT ![CachePath(call[c].name, MODEL)] = ""]
    /\ UNCHANGED <<rootExists, dirs>>

\* except Exception as e: raise RSIException(f"...: {e}")
get_model_except(c) ==
    /\ call[c].op = "get_model" /\ call[c].pc = "except"
    /\ Set(c, [call[c] EXCEPT !.pc = "done", !.exc = <<"RSIException">> \o @])
    /\ Failed(CachePath(call[c].name, MODEL), call[c])
    /\ UNCHANGED fs

\* return str(cache_path)
get_model_return(c) ==
    /\ call[c].op = "get_model" /\ call[c].pc = "return"
    /\ LET p == CachePath(call[c].name, MODEL)
           r == [call[c] EXCEPT !.pc = "done", !.ret = p]
       IN  Set(c, r) /\ Remember(p, r)
    /\ UNCHANGED fs

(* ---------------------------------------------------------------------- *)
(* _post and _post_json                                                   *)
(* ---------------------------------------------------------------------- *)

\* urllib.request.urlopen(Request(url, headers, data)): the request goes out
_post_urlopen(c) ==
    /\ call[c].pc = "_post"
    /\ Set(c, [call[c] EXCEPT !.pc = "_post_wait", !.reqs = @ + 1])
    /\ UNCHANGED <<fs, hist>>

\* the exception _post raises for the transport exception e
_post_raise(e) == <<"Exception", e>>

\* .read() returns the body, or the transport raises and _post wraps it
_post_read(c) ==
    /\ call[c].pc = "_post_wait"
    /\ \/ \E b \in PostBodies :
            Set(c, [call[c] EXCEPT !.pc = "loads", !.body = b])
       \/ \E e \in TransportErrors :
            Set(c, [call[c] EXCEPT !.pc = "except", !.exc = _post_raise(e),
                                   !.neterr = TRUE])
    /\ UNCHANGED <<fs, hist>>

\* json.loads(self._post(...)): text that is not JSON raises
_post_json(c) ==
    /\ call[c].pc = "loads"
    /\ IF call[c].body.kind = "badjson"
       THEN Set(c, [call[c] EXCEPT !.pc = "except", !.exc = <<"JSONDecodeError">>])
       ELSE Set(c, [call[c] EXCEPT !.pc = "parsed"])
    /\ UNCHANGED <<fs, hist>>

(* ---------------------------------------------------------------------- *)
(* get_si                                                                 *)
(* ---------------------------------------------------------------------- *)

get_si_call(c, name) ==
    /\ call[c].pc = "idle"
    /\ Set(c, New("get_si", name, GRAPHQL_URL, "exists", CachePath(name, SHIP_INFO)))
    /\ UNCHANGED <<fs, hist>>

\* if not cache_path.exists():
get_si_exists(c) ==
    /\ call[c].op = "get_si" /\ call[c].pc = "exists"
    /\ LET p == CachePath(call[c].name, SHIP_INFO) IN
         Set(c, [call[c] EXCEPT !.saw = IF file[p] # Absent THEN "hit" ELSE "miss",
                                !.pc = IF exists(p) THEN "read" ELSE "_post"])
    /\ UNCHANGED <<fs, hist>>

\* data = ...[0]["data"]["store"]["search"]["resources"][0]
get_si_index(c) ==
    /\ call[c].op = "get_si" /\ call[c].pc = "parsed"
    /\ IF call[c].body.kind = "noshape"
       THEN Set(c, [call[c] EXCEPT !.pc = "except", !.exc = <<"KeyError">>])
       ELSE IF call[c].body.resources = <<>>
       THEN Set(c, [call[c] EXCEPT !.pc = "except", !.exc = <<"IndexError">>])
       ELSE Set(c, [call[c] EXCEPT !.pc = "mkdir", !.json = <<call[c].body.resources[1]>>])
    /\ UNCHANGED <<fs, hist>>

\* a mkdir that empties a directory that is already there
get_si_mkdir_fresh(c) ==
    /\ call[c].op = "get_si" /\ call[c].pc = "mkdir"
    /\ rootExists' = TRUE
    /\ dirs' = dirs \cup {call[c].name}
    /\ file' = [p \in Paths |-> IF p[2] = call[c].name THEN Absent ELSE file[p]]
    /\ Set(c, [call[c] EXCEPT !.pc = "write"])
    /\ UNCHANGED hist

\* cache_path.parent.mkdir(parents=True, exist_ok=True)
get_si_mkdir(c) ==
    /\ call[c].op = "get_si" /\ call[c].pc = "mkdir"
    /\ rootExists' = TRUE
    /\ dirs' = dirs \cup {call[c].name}
    /\ Set(c, [call[c] EXCEPT !.pc = "write"])
    /\ UNCHANGED <<file, hist>>

\* cache_path.write_text(json.dumps(data)); without the parent directory it raises
get_si_write(c) ==
    /\ call[c].op = "get_si" /\ call[c].pc = "write"
    /\ IF call[c].name \in dirs
       THEN /\ file' = [file EXCEPT ![CachePath(call[c].name, SHIP_INFO)] =
                                        dumps(call[c].json[1])]
            /\ Set(c, [call[c] EXCEPT !.pc = "read"])
       ELSE /\ file' = file
            /\ Set(c, [call[c] EXCEPT !.pc = "except", !.exc = <<"FileNotFoundError">>])
    /\ UNCHANGED <<rootExists, dirs, hist>>

\* except Exception as e: raise RSIException(f"...: {e}")
get_si_except(c) ==
    /\ call[c].op = "get_si" /\ call[c].pc = "except"
    /\ Set(c, [call[c] EXCEPT !.pc = "done", !.exc = <<"RSIException">> \o @])
    /\ Failed(CachePath(call[c].name, SHIP_INFO), call[c])
    /\ UNCHANGED fs

\* return json.loads(cache_path.read_text()), outside the try block
get_si_read(c) ==
    /\ call[c].op = "get_si" /\ call[c].pc = "read"
    /\ LET p == CachePath(call[c].name, SHIP_INFO) IN
         IF file[p] = Absent
         THEN /\ Set(c, [call[c] EXCEPT !.pc = "done", !.exc = <<"FileNotFoundError">>])
              /\ Failed(p, call[c])
         ELSE LET r == [call[c] EXCEPT !.pc = "done", !.recs = <<loads(file[p])>>]
              IN  Set(c, r) /\ Remember(p, r)
    /\ UNCHANGED fs

(* ---------------------------------------------------------------------- *)
(* search                                                                 *)
(* ---------------------------------------------------------------------- *)

search_call(c, query) ==
    /\ call[c].pc = "idle"
    /\ Set(c, [Idle EXCEPT !.op = "search", !.name = query, !.url = GRAPHQL_URL,
                           !.pc = "_post", !.file0 = file])
    /\ UNCHANGED <<fs, hist>>

\* a handler that swallows the failure and answers with no results
search_except_swallow(c) ==
    /\ call[c].op = "search" /\ call[c].pc = "except"
    /\ Set(c, [call[c] EXCEPT !.pc = "done", !.exc = <<>>])
    /\ UNCHANGED <<fs, hist>>

\* except Exception as e: raise RSIException(f"Error searching for {query}: {e}")
search_except(c) ==
    /\ call[c].op = "search" /\ call[c].pc = "except"
    /\ Set(c, [call[c] EXCEPT !.pc = "done", !.exc = <<"RSIException">> \o @])
    /\ UNCHANGED <<fs, hist>>

\* results = []; search_results[0]["data"]["store"]["search"]["resources"],
\* outside the try block
search_resources(c) ==
    /\ call[c].op = "search" /\ call[c].pc = "parsed"
    /\ IF call[c].body.kind = "noshape"
       THEN Set(c, [call[c] EXCEPT !.pc = "done", !.exc = <<"KeyError">>])
       ELSE Set(c, [call[c] EXCEPT !.pc = "loop", !.i = 1, !.results = <<>>])
    /\ UNCHANGED <<fs, hist>>

\* a summary whose thumbnail is the page url
summary_swapped(ship) == [name |-> ship.name, title |-> ship.title,
                          thumbnail |-> ship.url, url |-> ship.thumbnail]

\* the dict appended for one ship of the answer
summary(ship) == [name |-> ship.name, title |-> ship.title,
                  thumbnail |-> ship.thumbnail, url |-> ship.url]

\* a loop that also fetches and caches the detail record of each ship
search_loop_detail(c) ==
    /\ call[c].op = "search" /\ call[c].pc = "loop"
    /\ call[c].i <= Len(call[c].body.resources)
    /\ LET ship == call[c].body.resources[call[c].i]
           p == CachePath(ship.name, SHIP_INFO)
       IN  /\ Set(c, [call[c] EXCEPT !.results = Append(@, [name |-> ship.name,
                                            title |-> ship.title,
                                            thumbnail |-> ship.thumbnail, url |-> ship.url]),
                                     !.i = @ + 1,
                                     !.reqs = IF file[p] = Absent THEN @ + 1 ELSE @])
           /\ file' = [file EXCEPT ![p] = IF @ = Absent THEN dumps(ship) ELSE @]
           /\ rootExists' = TRUE
           /\ dirs' = dirs \cup {ship.name}
    /\ UNCHANGED hist

\* one turn of: for ship in ...: results.append({...})
search_loop(c) ==
    /\ call[c].op = "search" /\ call[c].pc = "loop"
    /\ call[c].i <= Len(call[c].body.resources)
    /\ Set(c, [call[c] EXCEPT !.results = Append(@, summary(call[c].body.resources[call[c].i])),
                              !.i = @ + 1])
    /\ UNCHANGED <<fs, hist>>

\* return results
search_return(c) ==
    /\ call[c].op = "search" /\ call[c].pc = "loop"
    /\ call[c].i > Len(call[c].body.resources)
    /\ Set(c, [call[c] EXCEPT !.pc = "done", !.recs = call[c].results])
    /\ UNCHANGED <<fs, hist>>

(* ---------------------------------------------------------------------- *)
(* The caller                                                             *)
(* ---------------------------------------------------------------------- *)

\* the caller takes the value or the exception; the thread is free again
Done(c) ==
    /\ call[c].pc = "done"
    /\ Set(c, Idle)
    /\ UNCHANGED <<fs, hist>>

Begin(c) ==
    \/ clear_cache(c)
    \/ \E q \in Names : search_call(c, q)
    \/ \E n \in Names : get_si_call(c, n)
    \/ \E n \in Names, u \in Urls : get_thumbnail_call(c, n, u)
    \/ \E n \in Names : get_model_call(c, n)

Step(c) ==
    \/ _get_urlopen(c)
    \/ _get_read(c)
    \/ _post_urlopen(c)
    \/ _post_read(c)
    \/ _post_json(c)
    \/ search_except(c)
    \/ search_resources(c)
    \/ search_loop(c)
    \/ search_return(c)
    \/ get_si_exists(c)
    \/ get_si_index(c)
    \/ get_si_mkdir(c)
    \/ get_si_write(c)
    \/ get_si_except(c)
    \/ get_si_read(c)
    \/ get_model_exists(c)
    \/ get_model_mkdir(c)
    \/ get_model_write(c)
    \/ get_model_except(c)
    \/ get_model_return(c)
    \/ get_thumbnail_exists(c)
    \/ get_thumbnail_mkdir(c)
    \/ get_thumbnail_write(c)
    \/ get_thumbnail_except(c)
    \/ get_thumbnail_return(c)
    \/ Done(c)

Next == (\E c \in {MainThread} : Begin(c) \/ Step(c)) /\ UNCHANGED <<started, addon, mesh>>

Spec == Init /\ [][Next]_vars

(* ---------------------------------------------------------------------- *)
(* Mesh containers, as the OpenCTM bindings hand them out                 *)
(* ---------------------------------------------------------------------- *)

CTM_NONE == "CTM_NONE"

\* vertex positions (x, y, z) and index triples a container can hold
VertexSet == {<<1, 2, 3>>, <<0, -1, 4>>}
FaceSet == {<<0, 0, 0>>, <<0, 1, 1>>, <<0, 1, 2>>}

\* lists of at most n elements of S
RECURSIVE ListsUpTo(_, _)
ListsUpTo(S, n) == IF n = 0 THEN {<<>>}
                   ELSE ListsUpTo(S, n - 1) \cup
                        {Append(l, x) : l \in {t \in ListsUpTo(S, n - 1) : Len(t) = n - 1},
                                        x \in S}

\* the flat array of a list of triples
RECURSIVE Flat(_)
Flat(l) == IF l = <<>> THEN <<>> ELSE Head(l) \o Flat(Tail(l))

\* the context after ctmLoad of a file holding the vertices vs and the
\* triangles ts: an index outside the vertex range is an error of the container
Container(vs, ts) ==
    [err |-> IF \A j \in 1..Len(ts) : \A k \in 1..3 : ts[j][k] < Len(vs)
             THEN CTM_NONE ELSE "CTM_INVALID_MESH",
     vertex_count |-> Len(vs), vertices |-> Flat(vs),
     triangle_count |-> Len(ts), indices |-> Flat(ts)]

\* a file that cannot be read, and a file cut short after its first triangle
Containers ==
    {Container(vs, ts) : vs \in ListsUpTo(VertexSet, MaxVertices),
                         ts \in ListsUpTo(FaceSet, MaxTriangles)}
    \cup {[err |-> "CTM_FILE_ERROR", vertex_count |-> 0, vertices |-> <<>>,
           triangle_count |-> 0, indices |-> <<>>],
          [err |-> "CTM_BAD_FORMAT", vertex_count |-> 1, vertices |-> <<1, 2, 3>>,
           triangle_count |-> 1, indices |-> <<0, 0, 0>>]}

\* a ctm* call on the context: it is stale unless the context is live
Ctm(m) == [m EXCEPT !.stale = @ \/ m.ctx # "live"]

(* ---------------------------------------------------------------------- *)
(* import_mesh of the add-on (src/__init__.py)                            *)
(* ---------------------------------------------------------------------- *)

\* a flip that leaves y and z where they are
flip_vertices_none(vertices) == vertices

\* flipped[:, [1, 2]] = vertices[:, [2, 1]] * [-1, 1], for a non-empty list
flip_vertices(vertices) ==
    [j \in 1..Len(vertices) |-> <<vertices[j][1], 0 - vertices[j][3], vertices[j][2]>>]

\* ctm_context = ctmNewContext(CTM_IMPORT); vertices_ = []; faces_ = []
import_mesh_call ==
    /\ mesh.pc = "idle"
    /\ mesh' = [NoMesh EXCEPT !.variant = "addon", !.pc = "load", !.ctx = "live"]
    /\ UNCHANGED lib

\* ctmLoad(ctm_context, _filename.encode("utf-8"))
import_mesh_load ==
    /\ mesh.variant = "addon" /\ mesh.pc = "load"
    /\ \E k \in Containers : mesh' = [Ctm(mesh) EXCEPT !.container = k, !.pc = "error"]
    /\ UNCHANGED lib

\* err = ctmGetError(ctm_context); if err != CTM_NONE: raise IOError(...)
import_mesh_error ==
    /\ mesh.variant = "addon" /\ mesh.pc = "error"
    /\ mesh' = IF mesh.container.err # CTM_NONE
               THEN [Ctm(mesh) EXCEPT !.exc = <<"IOError">>, !.pc = "except"]
               ELSE [Ctm(mesh) EXCEPT !.pc = "vertices"]
    /\ UNCHANGED lib

\* vertex_count = ctmGetInteger(...); vertex_ctm = ctmGetFloatArray(...)
import_mesh_vertices ==
    /\ mesh.variant = "addon" /\ mesh.pc = "vertices"
    /\ mesh' = [Ctm(mesh) EXCEPT !.vertex_count = mesh.container.vertex_count,
                                 !.vertex_ctm = mesh.container.vertices,
                                 !.i = 0, !.pc = "vloop"]
    /\ UNCHANGED lib

\* for i in range(vertex_count): vertices_.append((vertex_ctm[i * 3], ...))
import_mesh_vloop ==
    /\ mesh.variant = "addon" /\ mesh.pc = "vloop"
    /\ mesh' = IF mesh.i < mesh.vertex_count
               THEN [mesh EXCEPT !.vertices_ = Append(@, <<mesh.vertex_ctm[mesh.i * 3 + 1],
                                                           mesh.vertex_ctm[mesh.i * 3 + 2],
                                                           mesh.vertex_ctm[mesh.i * 3 + 3]>>),
                                 !.i = @ + 1]
               ELSE [mesh EXCEPT !.pc = "flip"]
    /\ UNCHANGED lib

\* vertices_ = flip_vertices(vertices_).tolist(); the array of an empty list
\* has one dimension, and indexing it with [:, [1, 2]] raises IndexError
import_mesh_flip ==
    /\ mesh.variant = "addon" /\ mesh.pc = "flip"
    /\ mesh' = IF mesh.vertices_ = <<>>
               THEN [mesh EXCEPT !.exc = <<"IndexError">>, !.pc = "except"]
               ELSE [mesh EXCEPT !.vertices_ = flip_vertices(@), !.flips = @ + 1,
                                 !.pc = "faces"]
    /\ UNCHANGED lib

\* face_count = ctmGetInteger(...); face_ctm = ctmGetIntegerArray(...)
import_mesh_faces ==
    /\ mesh.variant = "addon" /\ mesh.pc = "faces"
    /\ mesh' = [Ctm(mesh) EXCEPT !.face_count = mesh.container.triangle_count,
                                 !.face_ctm = mesh.container.indices,
                                 !.i = 0, !.pc = "floop"]
    /\ UNCHANGED lib

\* a loop that leaves out the last triangle
import_mesh_floop_short ==
    /\ mesh.variant = "addon" /\ mesh.pc = "floop"
    /\ mesh' = IF mesh.i + 1 < mesh.face_count
               THEN [mesh EXCEPT !.faces_ = Append(@, <<mesh.face_ctm[mesh.i * 3 + 1],
                                                        mesh.face_ctm[mesh.i * 3 + 2],
                                                        mesh.face_ctm[mesh.i * 3 + 3]>>),
                                 !.i = @ + 1]
               ELSE [mesh EXCEPT !.pc = "finally"]
    /\ UNCHANGED lib

\* for i in range(face_count): faces_.append((face_ctm[i * 3], ...))
import_mesh_floop ==
    /\ mesh.variant = "addon" /\ mesh.pc = "floop"
    /\ mesh' = IF mesh.i < mesh.face_count
               THEN [mesh EXCEPT !.faces_ = Append(@, <<mesh.face_ctm[mesh.i * 3 + 1],
                                                        mesh.face_ctm[mesh.i * 3 + 2],
                                                        mesh.face_ctm[mesh.i * 3 + 3]>>),
                                 !.i = @ + 1]
               ELSE [mesh EXCEPT !.pc = "finally"]
    /\ UNCHANGED lib

\* a clause that catches every exception
import_mesh_except_all ==
    /\ mesh.variant = "addon" /\ mesh.pc = "except"
    /\ mesh' = [mesh EXCEPT !.exc = <<>>, !.pc = "finally"]
    /\ UNCHANGED lib

\* except RSIException as e: log.exception(...); any other exception goes on
import_mesh_except ==
    /\ mesh.variant = "addon" /\ mesh.pc = "except"
    /\ mesh' = IF mesh.exc[1] = "RSIException"
               THEN [mesh EXCEPT !.exc = <<>>, !.pc = "finally"]
               ELSE [mesh EXCEPT !.pc = "finally"]
    /\ UNCHANGED lib

\* a clean-up that runs only when nothing was raised
import_mesh_finally_leak ==
    /\ mesh.variant = "addon" /\ mesh.pc = "finally"
    /\ mesh' = IF mesh.exc = <<>>
               THEN [mesh EXCEPT !.ctx = "freed", !.frees = @ + 1, !.pc = "return"]
               ELSE [mesh EXCEPT !.pc = "done"]
    /\ UNCHANGED lib

\* finally: ctmFreeContext(ctm_context); then the exception, if any, goes on
import_mesh_finally ==
    /\ mesh.variant = "addon" /\ mesh.pc = "finally"
    /\ mesh' = [mesh EXCEPT !.ctx = "freed", !.frees = @ + 1,
                            !.pc = IF mesh.exc = <<>> THEN "return" ELSE "done"]
    /\ UNCHANGED lib

\* return vertices_, faces_
import_mesh_return ==
    /\ mesh.variant = "addon" /\ mesh.pc = "return"
    /\ mesh' = [mesh EXCEPT !.ret = <<mesh.vertices_, mesh.faces_>>, !.returned = TRUE,
                            !.pc = "done"]
    /\ UNCHANGED lib

(* ---------------------------------------------------------------------- *)
(* import_mesh of src/openctm/openctm.py                                  *)
(* ---------------------------------------------------------------------- *)

\* np.fromiter(flat, count=n * 3).reshape((-1, 3))
reshape(flat, n) == [j \in 1..n |-> <<flat[(j - 1) * 3 + 1], flat[(j - 1) * 3 + 2],
                                      flat[(j - 1) * 3 + 3]>>]

\* ctm_context = ctmNewContext(CTM_IMPORT)
openctm_import_mesh_call ==
    /\ mesh.pc = "idle"
    /\ mesh' = [NoMesh EXCEPT !.variant = "openctm", !.pc = "load", !.ctx = "live"]
    /\ UNCHANGED lib

\* ctmLoad(ctm_context, _encode(_filename))
openctm_import_mesh_load ==
    /\ mesh.variant = "openctm" /\ mesh.pc = "load"
    /\ \E k \in Containers : mesh' = [Ctm(mesh) EXCEPT !.container = k, !.pc = "error"]
    /\ UNCHANGED lib

\* err = ctmGetError(ctm_context); if err != CTM_NONE: raise IOError(...)
openctm_import_mesh_error ==
    /\ mesh.variant = "openctm" /\ mesh.pc = "error"
    /\ mesh' = IF mesh.container.err # CTM_NONE
               THEN [Ctm(mesh) EXCEPT !.exc = <<"IOError">>, !.pc = "finally"]
               ELSE [Ctm(mesh) EXCEPT !.pc = "vertices"]
    /\ UNCHANGED lib

\* vertex_count, vertex_ctm, vertices = np.fromiter(...).reshape((-1, 3))
openctm_import_mesh_vertices ==
    /\ mesh.variant = "openctm" /\ mesh.pc = "vertices"
    /\ mesh' = [Ctm(mesh) EXCEPT !.vertex_count = mesh.container.vertex_count,
                                 !.vertex_ctm = mesh.container.vertices,
                                 !.vertices_ = reshape(mesh.container.vertices,
                                                       mesh.container.vertex_count),
                                 !.pc = "faces"]
    /\ UNCHANGED lib

\* face_count, face_ctm, faces = np.fromiter(...).reshape((-1, 3))
openctm_import_mesh_faces ==
    /\ mesh.variant = "openctm" /\ mesh.pc = "faces"
    /\ mesh' = [Ctm(mesh) EXCEPT !.face_count = mesh.container.triangle_count,
                                 !.face_ctm = mesh.container.indices,
                                 !.faces_ = reshape(mesh.container.indices,
                                                    mesh.container.triangle_count),
                                 !.pc = "finally"]
    /\ UNCHANGED lib

\* finally: ctmFreeContext(ctm_context)
openctm_import_mesh_finally ==
    /\ mesh.variant = "openctm" /\ mesh.pc = "finally"
    /\ mesh' = [mesh EXCEPT !.ctx = "freed", !.frees = @ + 1,
                            !.pc = IF mesh.exc = <<>> THEN "return" ELSE "done"]
    /\ UNCHANGED lib

\* return CTM(vertices, faces)
openctm_import_mesh_return ==
    /\ mesh.variant = "openctm" /\ mesh.pc = "return"
    /\ mesh' = [mesh EXCEPT !.ret = <<mesh.vertices_, mesh.faces_>>, !.returned = TRUE,
                            !.pc = "done"]
    /\ UNCHANGED lib

\* the caller takes the mesh or the exception
MeshDone ==
    /\ mesh.pc = "done"
    /\ mesh' = NoMesh
    /\ UNCHANGED lib

MeshNext ==
    \/ import_mesh_call
    \/ import_mesh_load
    \/ import_mesh_error
    \/ import_mesh_vertices
    \/ import_mesh_vloop
    \/ import_mesh_flip
    \/ import_mesh_faces
    \/ import_mesh_floop
    \/ import_mesh_except
    \/ import_mesh_finally
    \/ import_mesh_return
    \/ openctm_import_mesh_call
    \/ openctm_import_mesh_load
    \/ openctm_import_mesh_error
    \/ openctm_import_mesh_vertices
    \/ openctm_import_mesh_faces
    \/ openctm_import_mesh_finally
    \/ openctm_import_mesh_return
    \/ MeshDone

MeshSpec == Init /\ [][MeshNext]_vars

(* ---------------------------------------------------------------------- *)
(* Callers on two threads                                                 *)
(* ---------------------------------------------------------------------- *)

\* the cache-checked gets, begun by any thread at any time
ConcBegin(c) ==
    /\ started < MaxCalls
    /\ started' = started + 1
    /\ \/ \E n \in Names : get_si_call(c, n)
       \/ \E n \in Names : get_thumbnail_call(c, n, Ship(n).thumbnail)
       \/ \E n \in Names : get_model_call(c, n)

ConcStep(c) ==
    \/ _get_urlopen(c)
    \/ _get_read(c)
    \/ _post_urlopen(c)
    \/ _post_read(c)
    \/ _post_json(c)
    \/ get_si_exists(c)
    \/ get_si_index(c)
    \/ get_si_mkdir(c)
    \/ get_si_write(c)
    \/ get_si_except(c)
    \/ get_si_read(c)
    \/ get_model_exists(c)
    \/ get_model_mkdir(c)
    \/ get_model_write(c)
    \/ get_model_except(c)
    \/ get_model_return(c)
    \/ get_thumbnail_exists(c)
    \/ get_thumbnail_mkdir(c)
    \/ get_thumbnail_write(c)
    \/ get_thumbnail_except(c)
    \/ get_thumbnail_return(c)
    \/ Done(c)

ConcNext ==
    /\ \E c \in Threads : ConcBegin(c) \/ (ConcStep(c) /\ UNCHANGED started)
    /\ UNCHANGED <<addon, mesh>>

\* the threads start on an empty cache
ConcInit == Init /\ ~rootExists

ConcSpec == ConcInit /\ [][ConcNext]_vars

(* ---------------------------------------------------------------------- *)
(* The add-on's handlers, run by Blender on the main thread               *)
(* ---------------------------------------------------------------------- *)

REPORT_CLEARED == "Cleared cache folder"
REPORT_OFFLINE == "RSI Browser requires online access"

\* the handler h begins with arguments sid and url, at position pc
Enter(h, sid, url, pc) ==
    [addon EXCEPT !.handler = h, !.sid = sid, !.url = url, !.pc = pc]

\* the handler h runs from its call to its end in one step
Whole(h, sid, exc, ret, reports) ==
    [addon EXCEPT !.handler = h, !.sid = sid, !.pc = "done", !.exc = exc,
                  !.ret = ret, !.reports = reports]

\* the user switches "Allow Online Access" while no handler runs
set_online_access ==
    /\ addon.handler = "none"
    /\ addon' = [addon EXCEPT !.online = ~@]
    /\ UNCHANGED <<fs, call, hist>>

\* an _update_search that searches without looking at online_access
_update_search_call_always(q) ==
    /\ addon.handler = "none"
    /\ search_call(MainThread, q)
    /\ addon' = Enter("_update_search", q, "", "search")

\* if bpy.app.online_access: rsi.search(...) else: search_results = []
_update_search_call(q) ==
    /\ addon.handler = "none"
    /\ IF addon.online
       THEN /\ search_call(MainThread, q)
            /\ addon' = Enter("_update_search", q, "", "search")
       ELSE /\ addon' = [Whole("_update_search", q, <<>>, "None", <<>>)
                            EXCEPT !.search_results = <<>>]
            /\ UNCHANGED <<fs, call, hist>>

\* search_results = <what rsi.search returned>, or its exception goes on
_update_search_return ==
    /\ addon.handler = "_update_search" /\ addon.pc = "search"
    /\ call[MainThread].pc = "done"
    /\ addon' = IF call[MainThread].exc # <<>>
                THEN [addon EXCEPT !.pc = "done", !.exc = call[MainThread].exc]
                ELSE [addon EXCEPT !.pc = "done", !.ret = "None",
                                   !.search_results = call[MainThread].recs]
    /\ Set(MainThread, Idle)
    /\ UNCHANGED <<fs, hist>>

\* if sid not in thumbs: offline raises, online calls rsi.get_thumbnail;
\* a sid in thumbs returns thumbs[sid].icon_id at once
_get_thumbnail_icon_call(sid, url) ==
    /\ addon.handler = "none"
    /\ IF sid \in addon.thumbs
       THEN /\ addon' = Whole("_get_thumbnail_icon", sid, <<>>, "icon_id", <<>>)
            /\ UNCHANGED <<fs, call, hist>>
       ELSE IF ~addon.online
       THEN /\ addon' = Whole("_get_thumbnail_icon", sid, <<"RSIException">>, "", <<>>)
            /\ UNCHANGED <<fs, call, hist>>
       ELSE /\ get_thumbnail_call(MainThread, sid, url)
            /\ addon' = Enter("_get_thumbnail_icon", sid, url, "get_thumbnail")

\* ip = thumbs.load(sid, filename, "IMAGE"); return thumbs[sid].icon_id
_get_thumbnail_icon_load ==
    /\ addon.handler = "_get_thumbnail_icon" /\ addon.pc = "get_thumbnail"
    /\ call[MainThread].pc = "done"
    /\ addon' = IF call[MainThread].exc # <<>>
                THEN [addon EXCEPT !.pc = "done", !.exc = call[MainThread].exc]
                ELSE [addon EXCEPT !.pc = "done", !.ret = "icon_id",
                                   !.thumbs = @ \cup {addon.sid}]
    /\ Set(MainThread, Idle)
    /\ UNCHANGED <<fs, hist>>

\* RSIImportOperator.execute: offline it reports and cancels; online its
\* first statement is rsi.get_ship_info(self.sid), a method RSIApiWrapper
\* does not have, and AttributeError is not an RSIException
RSIImportOperator_execute(sid) ==
    /\ addon.handler = "none"
    /\ addon' = IF ~addon.online
                THEN Whole("RSIImportOperator.execute", sid, <<>>, "CANCELLED",
                           <<REPORT_OFFLINE>>)
                ELSE Whole("RSIImportOperator.execute", sid, <<"AttributeError">>, "", <<>>)
    /\ UNCHANGED <<fs, call, hist>>

\* RSIBrowserPanel.draw: offline it draws three labels and returns; online
\* the loop reads result["id"] of the first result before it asks for the
\* icon, a key the records of rsi.search do not have
RSIBrowserPanel_draw ==
    /\ addon.handler = "none"
    /\ addon' = IF ~addon.online \/ addon.search_results = <<>>
                THEN Whole("RSIBrowserPanel.draw", "", <<>>, "None", <<>>)
                ELSE Whole("RSIBrowserPanel.draw", addon.search_results[1].name,
                           <<"KeyError">>, "", <<>>)
    /\ UNCHANGED <<fs, call, hist>>

\* RSIProductPanel.draw for an object with an rsiId: _last_id is None, so
\* offline it draws a label and returns, and online it calls
\* rsi.get_ship_info(sid) before _last_id is ever set
RSIProductPanel_draw(sid) ==
    /\ addon.handler = "none"
    /\ addon' = IF ~addon.online
                THEN Whole("RSIProductPanel.draw", sid, <<>>, "None", <<>>)
                ELSE Whole("RSIProductPanel.draw", sid, <<"AttributeError">>, "", <<>>)
    /\ UNCHANGED <<fs, call, hist>>

\* RSIClearCacheOperator.poll: return os.path.exists(rsi.cache_dir)
RSIClearCacheOperator_poll == rootExists

\* self.report({"INFO"}, f"Cleared cache folder: {rsi.cache_dir}")
RSIClearCacheOperator_execute_report ==
    /\ addon.handler = "none"
    /\ RSIClearCacheOperator_poll
    /\ addon' = [Enter("RSIClearCacheOperator.execute", "", "", "clear_cache")
                   EXCEPT !.reports = <<REPORT_CLEARED>>]
    /\ UNCHANGED <<fs, call, hist>>

\* rsi.clear_cache()
RSIClearCacheOperator_execute_clear ==
    /\ addon.handler = "RSIClearCacheOperator.execute" /\ addon.pc = "clear_cache"
    /\ clear_cache(MainThread)
    /\ addon' = [addon EXCEPT !.pc = "return"]

\* return {'FINISHED'}
RSIClearCacheOperator_execute_return ==
    /\ addon.handler = "RSIClearCacheOperator.execute" /\ addon.pc = "return"
    /\ addon' = IF call[MainThread].exc # <<>>
                THEN [addon EXCEPT !.pc = "done", !.exc = call[MainThread].exc]
                ELSE [addon EXCEPT !.pc = "done", !.ret = "FINISHED"]
    /\ Set(MainThread, Idle)
    /\ UNCHANGED <<fs, hist>>

\* the handler is over and Blender goes back to its event loop
HandlerDone ==
    /\ addon.handler # "none" /\ addon.pc = "done"
    /\ addon' = [online |-> addon.online, thumbs |-> addon.thumbs,
                 search_results |-> addon.search_results] @@ NoHandler
    /\ UNCHANGED <<fs, call, hist>>

\* the steps of rsi.search and rsi.get_thumbnail inside a handler
AddonLibStep ==
    /\ call[MainThread].pc # "done"
    /\ \/ _post_urlopen(MainThread)
       \/ _post_read(MainThread)
       \/ _post_json(MainThread)
       \/ search_except(MainThread)
       \/ search_resources(MainThread)
       \/ search_loop(MainThread)
       \/ search_return(MainThread)
       \/ get_thumbnail_exists(MainThread)
       \/ _get_urlopen(MainThread)
       \/ _get_read(MainThread)
       \/ get_thumbnail_mkdir(MainThread)
       \/ get_thumbnail_write(MainThread)
       \/ get_thumbnail_except(MainThread)
       \/ get_thumbnail_return(MainThread)
    /\ UNCHANGED addon

AddonNext ==
    /\ \/ set_online_access
       \/ \E q \in Names : _update_search_call(q)
       \/ _update_search_return
       \/ \E n \in Names, u \in Urls : _get_thumbnail_icon_call(n, u)
       \/ _get_thumbnail_icon_load
       \/ \E n \in Names : RSIImportOperator_execute(n)
       \/ RSIBrowserPanel_draw
       \/ \E n \in Names : RSIProductPanel_draw(n)
       \/ RSIClearCacheOperator_execute_report
       \/ RSIClearCacheOperator_execute_clear
       \/ RSIClearCacheOperator_execute_return
       \/ HandlerDone
       \/ AddonLibStep
    /\ UNCHANGED <<started, mesh>>

AddonSpec == Init /\ [][AddonNext]_vars


(* ---------------------------------------------------------------------- *)
(* Properties                                                             *)
(* ---------------------------------------------------------------------- *)

GetOps == {"get_si", "get_thumbnail", "get_model"}

\* the file a get operation keeps in the cache
KindOf(op) == IF op = "get_si" THEN SHIP_INFO
              ELSE IF op = "get_thumbnail" THEN THUMBNAIL ELSE MODEL

PathOf(r) == CachePath(r.name, KindOf(r.op))

Last(s) == s[Len(s)]

InFlight(c) == call[c].pc \in {"_get_wait", "_post_wait"}

\* OSError and its subclasses (IOError is the same class)
OSErrors == {"OSError", "FileNotFoundError"}

\* C1: a get_thumbnail that begins after an earlier get_thumbnail of the same
\* name succeeded, with no clear_cache since, sends no request and returns
\* the path the first call returned; when the first call had to fetch, the
\* two calls together sent exactly one request.
C1_ThumbnailIdempotent ==
    \A c \in Threads :
        LET r == call[c]
            p == CachePath(r.name, THUMBNAIL)
        IN  (r.op = "get_thumbnail" /\ r.after) =>
                /\ r.reqs = 0
                /\ hist[p].miss => hist[p].reqs + r.reqs = 1
                /\ r.pc = "done" => r.exc = <<>> /\ r.ret = hist[p].ret

\* a second get_thumbnail has returned after a first one that fetched
C1_Witness ==
    \E c \in Threads :
        /\ call[c].op = "get_thumbnail" /\ call[c].after /\ call[c].pc = "done"
        /\ hist[CachePath(call[c].name, THUMBNAIL)].miss
        /\ call[c].ret = CachePath(call[c].name, THUMBNAIL)

\* C2: a get_model for a name without a model URL whose model is not cached
\* returns the cache path without sending a request and without raising.
C2_NoRequestWithoutUrl ==
    \A c \in Threads :
        (call[c].op = "get_model" /\ call[c].saw = "miss") =>
            /\ call[c].reqs = 0
            /\ call[c].exc = <<>>
            /\ call[c].pc = "done" => call[c].ret = CachePath(call[c].name, MODEL)

\* C3: clear_cache without a cache root raises an OSError and leaves the
\* file system as it was; clear_cache with a cache root does not raise and
\* leaves no cache file of any name and kind.
C3_ClearCache ==
    [][\A c \in Threads :
         (call[c].pc = "idle" /\ call'[c].op = "clear_cache") =>
            IF rootExists
            THEN /\ call'[c].exc = <<>>
                 /\ ~rootExists'
                 /\ \A p \in Paths : file'[p] = Absent
            ELSE /\ call'[c].exc # <<>>
                 /\ call'[c].exc[1] \in OSErrors
                 /\ fs' = fs]_vars

\* a clear_cache has succeeded and removed cached files
C3_Witness ==
    \E c \in Threads :
        /\ call[c].op = "clear_cache" /\ call[c].pc = "done" /\ call[c].exc = <<>>
        /\ call[c].removed # {}
        /\ \A p \in Paths : file[p] = Absent

\* C4: when the request of a get_si, get_thumbnail or get_model fails, the
\* call ends by raising, its cache file does not exist and the whole cache
\* is as it was when the call began; the next get of the same file finds no
\* file and sends a new request.
C4_FailureLeavesCache ==
    \A c \in Threads :
        LET r == call[c] IN
        r.op \in GetOps =>
            /\ r.neterr => /\ r.pc \in {"except", "done"}
                           /\ r.exc # <<>>
                           /\ file[PathOf(r)] = Absent
                           /\ file = r.file0
            /\ (r.retry /\ r.saw # "none") => r.saw = "miss"
            /\ (r.retry /\ r.pc = "done") => r.reqs = 1

\* a get that follows a failed get of the same file has fetched and returned
C4_Witness ==
    \E c \in Threads :
        /\ call[c].op \in GetOps /\ call[c].retry
        /\ call[c].pc = "done" /\ call[c].exc = <<>> /\ call[c].reqs = 1
        /\ file[PathOf(call[c])] # Absent

\* C5: a get_si that finds the record cached returns the cached record and
\* sends no request; one that does not sends one request, stores the record
\* it fetched and returns it; every get_si after a successful one and before
\* the next clear_cache returns what the first returned.
C5_GetSi ==
    \A c \in Threads :
        LET r == call[c]
            p == CachePath(r.name, SHIP_INFO)
        IN  (r.op = "get_si" /\ r.pc = "done" /\ r.exc = <<>>) =>
                /\ r.saw = "hit" => r.reqs = 0 /\ r.recs = <<loads(r.file0[p])>>
                /\ r.saw = "miss" => /\ r.reqs = 1
                                     /\ file[p] = dumps(r.json[1])
                                     /\ r.recs = r.json
                /\ r.after => r.recs = hist[p].recs

\* a get_si has returned the record an earlier get_si fetched
C5_Witness ==
    \E c \in Threads :
        /\ call[c].op = "get_si" /\ call[c].pc = "done" /\ call[c].exc = <<>>
        /\ call[c].after /\ call[c].saw = "hit"
        /\ hist[CachePath(call[c].name, SHIP_INFO)].miss
        /\ call[c].recs = hist[CachePath(call[c].name, SHIP_INFO)].recs

\* C6: a get_si, get_thumbnail or get_model sends a request exactly when its
\* cache file did not exist at the check, and never more than one request,
\* also when the request fails.
C6_FreshnessIsExistence ==
    \A c \in Threads :
        LET r == call[c] IN
        r.op \in GetOps =>
            /\ r.reqs <= 1
            /\ r.saw # "miss" => r.reqs = 0
            /\ r.pc = "done" => (r.reqs = 1 <=> r.saw = "miss")

\* a get whose only request failed has ended
C6_Witness ==
    \E c \in Threads :
        /\ call[c].op \in GetOps /\ call[c].pc = "done"
        /\ call[c].neterr /\ call[c].reqs = 1 /\ call[c].saw = "miss"

\* C7: the exception that leaves _get or _post after a transport failure is
\* an RSIException that carries the cause.
C7_TransportWrapped ==
    \A c \in Threads :
        (call[c].neterr /\ call[c].pc = "except") =>
            /\ call[c].exc[1] = "RSIException"
            /\ Last(call[c].exc) \in TransportErrors

\* C8: a search, get_si, get_thumbnail or get_model whose request failed
\* does nothing more than raise: it ends with an RSIException and no value.
C8_FailureSurfaced ==
    \A c \in Threads :
        LET r == call[c] IN
        r.neterr =>
            /\ r.pc \in {"except", "done"}
            /\ r.pc = "done" => /\ r.exc # <<>>
                                /\ r.exc[1] = "RSIException"
                                /\ r.ret = <<>>
                                /\ r.recs = <<>>

\* a search whose request failed has raised
C8_Witness ==
    \E c \in Threads :
        /\ call[c].op = "search" /\ call[c].neterr /\ call[c].pc = "done"
        /\ call[c].exc[1] = "RSIException"

\* requests a search sent besides its query
DetailFetches(r) == r.reqs - 1

\* the names in an answer whose detail record was not cached when the call began
Uncached(r) == {n \in Names : /\ \E i \in 1..Len(r.body.resources) :
                                    r.body.resources[i].name = n
                              /\ r.file0[CachePath(n, SHIP_INFO)] = Absent}

C10_SearchAggregation ==
    \A c \in Threads :
        LET r == call[c]
            res == r.body.resources
        IN  (r.op = "search" /\ r.pc = "done" /\ r.exc = <<>>) =>
                /\ Len(r.recs) = Len(res)
                /\ \A i \in 1..Len(res) : /\ r.recs[i].name = res[i].name
                                          /\ r.recs[i].thumbnail = res[i].thumbnail
                                          /\ r.recs[i].url = res[i].url

\* a search has returned the summaries of two different ships
C10_Witness ==
    \E c \in Threads :
        /\ call[c].op = "search" /\ call[c].pc = "done" /\ call[c].exc = <<>>
        /\ Len(call[c].recs) >= 2
        /\ call[c].recs[1].name # call[c].recs[2].name
\* the container has been loaded into the context
Loaded == mesh.pc \notin {"idle", "load"}

\* C11: import_mesh on a container whose error code after loading is not
\* CTM_NONE reads nothing more and raises IOError to its caller; it returns
\* no mesh, not even an empty one.
C11_MalformedRaises ==
    (Loaded /\ mesh.pc # "error" /\ mesh.container.err # CTM_NONE) =>
        /\ mesh.pc \in {"except", "finally", "done"}
        /\ mesh.exc = <<"IOError">>
        /\ mesh.ret = <<>>
        /\ ~mesh.returned

\* the add-on's import_mesh has raised for a container with an error code
C11_Witness ==
    /\ mesh.variant = "addon" /\ mesh.pc = "done"
    /\ mesh.container.err # CTM_NONE
    /\ mesh.exc = <<"IOError">>

C13_AxisFixUp ==
    LET k == mesh.container IN
    mesh.variant = "addon" =>
        /\ mesh.flips <= 1
        /\ mesh.returned =>
              /\ mesh.flips = 1
              /\ \A j \in 1..k.vertex_count :
                     mesh.ret[1][j] = <<k.vertices[(j - 1) * 3 + 1],
                                         0 - k.vertices[(j - 1) * 3 + 3],
                                         k.vertices[(j - 1) * 3 + 2]>>

\* the add-on's import_mesh has returned (1, -3, 2) for the vertex (1, 2, 3)
C13_Witness ==
    /\ mesh.variant = "addon" /\ mesh.returned
    /\ mesh.container.vertices[1] = 1 /\ mesh.container.vertices[2] = 2
    /\ mesh.container.vertices[3] = 3
    /\ mesh.ret[1][1] = <<1, -3, 2>>

\* C14: import_mesh on a container that loads without error and reports no
\* vertices, or no triangles, raises nothing and returns the empty list.
C14_EmptyMeshValid ==
    LET k == mesh.container IN
    (Loaded /\ k.err = CTM_NONE /\ (k.vertex_count = 0 \/ k.triangle_count = 0)) =>
        /\ mesh.exc = <<>>
        /\ mesh.pc = "done" => /\ mesh.returned
                               /\ k.vertex_count = 0 => mesh.ret[1] = <<>>
                               /\ k.triangle_count = 0 => mesh.ret[2] = <<>>

\* C15: on every path through import_mesh the context is released once
\* before the call returns or raises, never twice, and no ctm call is made
\* on a released context.
C15_ContextReleased ==
    /\ mesh.frees <= 1
    /\ ~mesh.stale
    /\ mesh.pc \in {"return", "done"} => mesh.ctx = "freed" /\ mesh.frees = 1
    /\ mesh.pc \notin {"idle", "return", "done"} => mesh.ctx = "live" /\ mesh.frees = 0

\* import_mesh has raised from the reading of the vertices, the context released
C15_Witness ==
    /\ mesh.pc = "done" /\ mesh.exc = <<"IndexError">>
    /\ mesh.ctx = "freed" /\ mesh.frees = 1

(* ---------------------------------------------------------------------- *)
(* Concurrent callers and the cache tree                                  *)
(* ---------------------------------------------------------------------- *)

\* what the write step of a get puts into the file
Written(r) == IF r.op = "get_si" THEN dumps(r.json[1]) ELSE r.data

\* the call of thread c has written its file
HasWritten(c) ==
    /\ call[c].op \in GetOps /\ call[c].saw = "miss" /\ call[c].exc = <<>>
    /\ call[c].pc \in {"return", "read", "done"}

\* C16: gets of one id are not deduplicated: a caller whose existence check
\* finds no file goes on to the network request whatever the other thread is
\* doing, and a caller that reaches its write puts its own data into the
\* file whatever is there, so the later of two writes is what stays.
C16_LastWriteWins ==
    [][\A c \in Threads :
          /\ (/\ call[c].op \in GetOps /\ call[c].pc = "exists"
               /\ call'[c].pc # "exists" /\ file[PathOf(call[c])] = Absent)
                => call'[c].pc \in {"_get", "_post"}
          /\ (/\ call[c].op \in GetOps /\ call[c].pc = "write"
               /\ call'[c].pc \in {"return", "read"})
                => file'[PathOf(call[c])] = Written(call[c])]_vars

\* both threads missed the same thumbnail, both sent a request, both wrote,
\* and the file holds the second writer's bytes, not the first's
C16_Witness ==
    \E c, d \in Threads :
        /\ c # d
        /\ call[c].op = "get_thumbnail" /\ call[d].op = "get_thumbnail"
        /\ call[c].name = call[d].name
        /\ HasWritten(c) /\ HasWritten(d)
        /\ call[c].reqs = 1 /\ call[d].reqs = 1
        /\ call[c].data # call[d].data
        /\ call[d].pc = "return"
        /\ file[PathOf(call[d])] = call[d].data

\* C17: a step of a get for ship A changes no file but cache_dir/A/<its
\* kind>, creates no directory but A's, and removes nothing, whatever the
\* other thread is doing.
C17_DisjointSubtrees ==
    [][/\ \A p \in Paths :
            file'[p] # file[p] =>
                /\ file'[p] # Absent
                /\ \E c \in Threads : /\ call[c].op \in GetOps /\ call'[c] # call[c]
                                       /\ PathOf(call[c]) = p
       /\ dirs \subseteq dirs'
       /\ \A n \in dirs' \ dirs :
            \E c \in Threads : /\ call[c].op \in GetOps /\ call'[c] # call[c]
                                /\ call[c].name = n]_vars

\* gets for two different ships overlap: one has written its file, the
\* other is between its request and its write, and nothing else exists
C17_Witness ==
    \E c, d \in Threads :
        /\ c # d
        /\ call[c].name # call[d].name
        /\ HasWritten(c) /\ call[c].pc # "done"
        /\ call[d].op \in GetOps /\ call[d].saw = "miss"
        /\ call[d].pc \in {"mkdir", "write"}
        /\ \A p \in Paths : file[p] # Absent <=> p = PathOf(call[c])

\* C19: in calls made one after another, a cache file that exists is not
\* removed and its content is not changed by any step of search, get_si,
\* get_thumbnail or get_model; the only step that changes it is clear_cache,
\* which removes it.
C19_CachedIsTerminal ==
    [][\A p \in Paths :
          (file[p] # Absent /\ file'[p] # file[p]) =>
              /\ call[MainThread].pc = "idle"
              /\ call'[MainThread].op = "clear_cache"
              /\ file'[p] = Absent]_vars

\* a get that missed has fetched and written its file while a file that was
\* cached when it began is still there with the same content
C19_Witness ==
    /\ HasWritten(MainThread) /\ call[MainThread].pc = "done"
    /\ \E p \in Paths :
          /\ p # PathOf(call[MainThread])
          /\ p[2] = call[MainThread].name
          /\ call[MainThread].file0[p] # Absent
          /\ file[p] = call[MainThread].file0[p]

(* ---------------------------------------------------------------------- *)
(* The add-on                                                             *)
(* ---------------------------------------------------------------------- *)

NetworkPcs == {"_get", "_get_wait", "_post", "_post_wait"}

\* C18: while online access is disabled no handler has sent a request or is
\* about to; an _update_search that ran offline leaves search_results
\* empty, and a _get_thumbnail_icon that ran offline for a thumbnail that
\* is not loaded ended in RSIException.
C18_NoNetworkOffline ==
    ~addon.online =>
        /\ call[MainThread].reqs = 0
        /\ call[MainThread].pc \notin NetworkPcs
        /\ call[MainThread].op \in {"none", "clear_cache"}
        /\ (addon.handler = "_update_search" /\ addon.pc = "done")
             => (addon.search_results = <<>> /\ addon.exc = <<>>)
        /\ (/\ addon.handler = "_get_thumbnail_icon" /\ addon.pc = "done"
            /\ addon.sid \notin addon.thumbs)
             => addon.exc = <<"RSIException">>

\* offline, after a thumbnail was fetched online: _get_thumbnail_icon for
\* another ship has raised, and no request left
C18_Witness ==
    /\ ~addon.online
    /\ addon.thumbs # {}
    /\ addon.handler = "_get_thumbnail_icon" /\ addon.pc = "done"
    /\ addon.sid \notin addon.thumbs
    /\ addon.exc = <<"RSIException">>
    /\ file[CachePath(addon.sid, THUMBNAIL)] = Absent

\* C20: whenever RSIClearCacheOperator.execute has reported "Cleared cache
\* folder", a clear_cache that succeeded came before the report: the cache
\* directory is gone and the call raised nothing.
C20_ReportOnlyAfterClear ==
    (addon.handler = "RSIClearCacheOperator.execute" /\ addon.reports = <<REPORT_CLEARED>>)
        => /\ ~rootExists
           /\ call[MainThread].op = "clear_cache" \/ addon.pc = "done"
           /\ addon.exc = <<>>

=============================================================================
